---- MODULE Spec2Model ----
(***************************************************************************)
(* Model of src/utilities.py: the Row Merger (fix_aspect_values) and the   *)
(* IOB Encoder (convert_to_iob).                                           *)
(*                                                                         *)
(* Strings are sequences of one-character strings, so that concatenation,  *)
(* f-string prefixing and str.replace are computed character by character. *)
(* A DataFrame is a function from its index labels (integers, a default    *)
(* RangeIndex 0..n-1 when it is built) to rows.                            *)
(***************************************************************************)
EXTENDS Integers, Sequences, FiniteSets, TLC

\* ------------------------------------------------------------------ bounds
MaxRows == 3
MaxRid == 2

\* ----------------------------------------------------------------- strings
\* the float NaN that pandas stores for a missing Tag; not a string
NaN == <<"NaN">>
\* the NaN key that groupby drops
NaNRecord == -1
O == <<"O">>
I_ == <<"I", "-">>
B_ == <<"B", "-">>

Tokens == {<<"a">>, <<"b">>}
Tags == {O, <<"x">>}
AspectNames == {O, <<"a">>, <<"b">>, <<"I", "-", "a">>}
RecordNumbers == 1..MaxRid

\* str.replace('I-', ''): every non-overlapping occurrence, left to right
RECURSIVE replace(_)
replace(s) ==
    IF Len(s) = 0 THEN <<>>
    ELSE IF Len(s) >= 2 /\ SubSeq(s, 1, 2) = I_
         THEN replace(SubSeq(s, 3, Len(s)))
         ELSE <<Head(s)>> \o replace(Tail(s))

\* the set S of integers as an ascending sequence
Ascending(S) ==
    [n \in 1..Cardinality(S) |->
        CHOOSE x \in S : Cardinality({y \in S : y < x}) = n - 1]

\* ------------------------------------------------------------------- state
VARIABLES pc,               \* position of the caller / the running function
          input0,           \* the caller's table as it was before the call
          caller_df,        \* the caller's DataFrame object
          df,               \* the object the local name df is bound to after a drop
          df_is_caller,     \* TRUE while the local name df is the caller's object
          i,                \* loop variable of fix_aspect_values
          result,           \* value returned by fix_aspect_values
          table,            \* argument of convert_to_iob
          keys,             \* group keys, in the order groupby yields them
          g,                \* position in keys
          group,            \* index labels of the rows of the current group
          k,                \* position in group
          previous_label,
          converted_labels,
          visited           \* index label of the row behind each converted label

vars == <<pc, input0, caller_df, df, df_is_caller, i, result,
          table, keys, g, group, k, previous_label, converted_labels, visited>>

mergeVars == <<input0, caller_df, df, df_is_caller, i, result>>
iobVars == <<table, keys, g, group, k, previous_label, converted_labels, visited>>

\* ---------------------------------------------------------------- inputs
TaggedToken == [RecordNumber : RecordNumbers, Token : Tokens, Tag : Tags \cup {NaN}]
MergedToken == [RecordNumber : RecordNumbers \cup {NaNRecord}, AspectName : AspectNames]

Frames(Rows) == UNION {[0..(n - 1) -> Rows] : n \in 0..MaxRows}

\* ------------------------------------------------------ fix_aspect_values
\* the frame the local name df refers to
DF == IF df_is_caller THEN caller_df ELSE df

\* variant: the operands of the concatenation swapped
ConcatRev(prev, cur) == cur \o <<" ">> \o prev
\* df.loc[i - 1, 'Token'] + ' ' + df.loc[i, 'Token']
Concat(prev, cur) == prev \o <<" ">> \o cur

\* df.loc[lbl, 'Token'] = value
SetToken(frame, lbl, value) == [frame EXCEPT ![lbl].Token = value]

\* variant: the row is not dropped
DropNothing(frame, lbl) == frame
\* df.drop(lbl): a new frame without the row labelled lbl
Drop(frame, lbl) == [j \in (DOMAIN frame) \ {lbl} |-> frame[j]]

\* df.reset_index(drop=True)
reset_index(frame) ==
    [n \in 0..(Cardinality(DOMAIN frame) - 1) |-> frame[Ascending(DOMAIN frame)[n + 1]]]

\* df.rename(columns={'Token': 'Aspect Value', 'Tag': 'Aspect Name'})
rename(frame) ==
    [n \in DOMAIN frame |->
        [RecordNumber |-> frame[n].RecordNumber,
         AspectValue |-> frame[n].Token,
         AspectName |-> frame[n].Tag]]

fix_aspect_values_call ==
    /\ pc = "merge_idle"
    /\ pc' = "merge_loop"
    /\ i' = Cardinality(DOMAIN caller_df) - 1
    /\ df_is_caller' = TRUE
    /\ UNCHANGED <<input0, caller_df, df, result>>
    /\ UNCHANGED iobVars

\* the Tag of row i is not NaN: next i
merge_keep ==
    /\ pc = "merge_loop"
    /\ i >= 0
    /\ DF[i].Tag # NaN
    /\ i' = i - 1
    /\ UNCHANGED <<pc, input0, caller_df, df, df_is_caller, result>>
    /\ UNCHANGED iobVars

\* the Tag of row i is NaN and the label i - 1 exists: write into row i - 1
\* of the frame df names, then rebind df to the frame without row i
merge_fragment ==
    /\ pc = "merge_loop"
    /\ i >= 0
    /\ DF[i].Tag = NaN
    /\ (i - 1) \in DOMAIN DF
    /\ LET written == SetToken(DF, i - 1, Concat(DF[i - 1].Token, DF[i].Token))
       IN /\ caller_df' = IF df_is_caller THEN written ELSE caller_df
          /\ df' = Drop(written, i)
    /\ df_is_caller' = FALSE
    /\ i' = i - 1
    /\ UNCHANGED <<pc, input0, result>>
    /\ UNCHANGED iobVars

\* the Tag of row i is NaN and there is no label i - 1: df.loc raises KeyError
merge_key_error ==
    /\ pc = "merge_loop"
    /\ i >= 0
    /\ DF[i].Tag = NaN
    /\ (i - 1) \notin DOMAIN DF
    /\ pc' = "merge_raised"
    /\ UNCHANGED mergeVars
    /\ UNCHANGED iobVars

fix_aspect_values_return ==
    /\ pc = "merge_loop"
    /\ i < 0
    /\ result' = rename(reset_index(DF))
    /\ pc' = "merge_returned"
    /\ UNCHANGED <<input0, caller_df, df, df_is_caller, i>>
    /\ UNCHANGED iobVars

\* --------------------------------------------------------- convert_to_iob
\* df.groupby('Record Number'): keys ascending, NaN keys dropped
GroupKeys(t) == Ascending({t[n].RecordNumber : n \in DOMAIN t} \ {NaNRecord})

\* variant: only the first contiguous run of rows with the key
GroupRowsFirstRun(t, key) ==
    Ascending({n \in DOMAIN t :
        /\ t[n].RecordNumber = key
        /\ \A m \in DOMAIN t : (m < n /\ t[m].RecordNumber # key) =>
               \A l \in DOMAIN t : l < m => t[l].RecordNumber # key})
\* the rows of one group, in their original order
GroupRows(t, key) == Ascending({n \in DOMAIN t : t[n].RecordNumber = key})

\* variant: previous_label initialised once, before the loop over the groups
KeepPreviousLabel(prev) == IF prev = <<>> THEN O ELSE prev
\* previous_label = 'O' at the top of the loop body
InitialPreviousLabel(prev) == O

label == table[group[k]].AspectName

convert_to_iob_call ==
    /\ pc = "iob_idle"
    /\ pc' = "iob_groups"
    /\ keys' = GroupKeys(table)
    /\ g' = 1
    /\ converted_labels' = <<>>
    /\ visited' = <<>>
    /\ UNCHANGED <<table, group, k, previous_label>>
    /\ UNCHANGED mergeVars

next_group ==
    /\ pc = "iob_groups"
    /\ g <= Len(keys)
    /\ group' = GroupRows(table, keys[g])
    /\ previous_label' = InitialPreviousLabel(previous_label)
    /\ k' = 1
    /\ pc' = "iob_labels"
    /\ UNCHANGED <<table, keys, g, converted_labels, visited>>
    /\ UNCHANGED mergeVars

label_outside ==
    /\ pc = "iob_labels"
    /\ k <= Len(group)
    /\ label = O
    /\ converted_labels' = Append(converted_labels, O)
    /\ previous_label' = O
    /\ visited' = Append(visited, group[k])
    /\ k' = k + 1
    /\ UNCHANGED <<pc, table, keys, g, group>>
    /\ UNCHANGED mergeVars

label_begin ==
    /\ pc = "iob_labels"
    /\ k <= Len(group)
    /\ label # O
    /\ label # replace(previous_label)
    /\ converted_labels' = Append(converted_labels, B_ \o label)
    /\ previous_label' = I_ \o label
    /\ visited' = Append(visited, group[k])
    /\ k' = k + 1
    /\ UNCHANGED <<pc, table, keys, g, group>>
    /\ UNCHANGED mergeVars

label_inside ==
    /\ pc = "iob_labels"
    /\ k <= Len(group)
    /\ label # O
    /\ label = replace(previous_label)
    /\ converted_labels' = Append(converted_labels, I_ \o label)
    /\ previous_label' = I_ \o label
    /\ visited' = Append(visited, group[k])
    /\ k' = k + 1
    /\ UNCHANGED <<pc, table, keys, g, group>>
    /\ UNCHANGED mergeVars

end_group ==
    /\ pc = "iob_labels"
    /\ k > Len(group)
    /\ g' = g + 1
    /\ pc' = "iob_groups"
    /\ UNCHANGED <<table, keys, group, k, previous_label, converted_labels, visited>>
    /\ UNCHANGED mergeVars

convert_to_iob_return ==
    /\ pc = "iob_groups"
    /\ g > Len(keys)
    /\ pc' = "iob_returned"
    /\ UNCHANGED iobVars
    /\ UNCHANGED mergeVars

\* ----------------------------------------------------------- specification
\* the caller holds a table of tagged tokens and is about to merge it
InitMerge ==
    /\ pc = "merge_idle"
    /\ input0 \in Frames(TaggedToken)
    /\ caller_df = input0
    /\ table = <<>>

\* the caller holds a table of merged tokens and is about to encode it
InitIOB ==
    /\ pc = "iob_idle"
    /\ table \in Frames(MergedToken)
    /\ input0 = <<>>
    /\ caller_df = <<>>

Init ==
    /\ InitMerge \/ InitIOB
    /\ df = <<>>
    /\ df_is_caller = TRUE
    /\ i = 0
    /\ result = <<>>
    /\ keys = <<>>
    /\ g = 0
    /\ group = <<>>
    /\ k = 0
    /\ previous_label = <<>>
    /\ converted_labels = <<>>
    /\ visited = <<>>

Next ==
    \/ fix_aspect_values_call
    \/ merge_keep
    \/ merge_fragment
    \/ merge_key_error
    \/ fix_aspect_values_return
    \/ convert_to_iob_call
    \/ next_group
    \/ label_outside
    \/ label_begin
    \/ label_inside
    \/ end_group
    \/ convert_to_iob_return

Spec == Init /\ [][Next]_vars

\* ------------------------------------------------- properties: Row Merger
Rows(t) == Cardinality(DOMAIN t)

\* a missing-label row that is the first row of its record
Orphan(t, n) ==
    /\ t[n].Tag = NaN
    /\ n = 0 \/ t[n - 1].RecordNumber # t[n].RecordNumber
HasOrphan(t) == \E n \in DOMAIN t : Orphan(t, n)

\* C1: a table in which a missing-label row is the first row of its record
\* is rejected: the merge raises and returns no result.
C1_OrphanRejected ==
    (pc \in {"merge_returned", "merge_raised"} /\ HasOrphan(input0))
        => (pc = "merge_raised" /\ result = <<>>)

\* the forward fold: a labelled row opens an output row, a missing-label row
\* extends the text of the last output row by one space and its token
RECURSIVE ForwardFold(_, _, _)
ForwardFold(t, n, acc) ==
    IF n \notin DOMAIN t THEN acc
    ELSE IF t[n].Tag = NaN
         THEN ForwardFold(t, n + 1,
                  [acc EXCEPT ![Len(acc)].AspectValue = @ \o <<" ">> \o t[n].Token])
         ELSE ForwardFold(t, n + 1,
                  Append(acc, [RecordNumber |-> t[n].RecordNumber,
                               AspectValue |-> t[n].Token,
                               AspectName |-> t[n].Tag]))

\* C5: when every missing-label row has a predecessor in its record, the
\* returned table is the forward fold of the input: one row per labelled row,
\* its text the labelled token followed by its fragments in forward order,
\* one space between them, rows in their original relative order.
C5_MergeIsForwardFold ==
    (pc = "merge_returned" /\ ~HasOrphan(input0)) =>
        LET fold == ForwardFold(input0, 0, <<>>)
        IN /\ Rows(result) = Len(fold)
           /\ \A n \in DOMAIN result : result[n] = fold[n + 1]

\* a labelled row with two fragments after it has been merged into one row
C5_Witness ==
    /\ pc = "merge_returned"
    /\ ~HasOrphan(input0)
    /\ Rows(input0) = 3
    /\ input0[1].Tag = NaN /\ input0[2].Tag = NaN
    /\ Rows(result) = 1
    /\ result[0].AspectName = <<"x">>
    /\ result[0].AspectValue = <<"a", " ", "b", " ", "a">>

\* C6: a returned table has as many rows as the input has labelled rows, and
\* none of its rows has a missing label.
C6_MergeCountLaw ==
    pc = "merge_returned" =>
        /\ Rows(result) = Cardinality({n \in DOMAIN input0 : input0[n].Tag # NaN})
        /\ \A n \in DOMAIN result : result[n].AspectName # NaN

\* a table with fragments, one of them at the start of a record, was merged
C6_Witness ==
    /\ pc = "merge_returned"
    /\ HasOrphan(input0)
    /\ Rows(input0) = 3
    /\ Rows(result) = 1

\* C8: the caller's table is the same before, during and after the call.
C8_InputUntouched == caller_df = input0

\* ------------------------------------------------ properties: IOB Encoder
AllKeyed(t) == \A n \in DOMAIN t : t[n].RecordNumber # NaNRecord
Returned == pc = "iob_returned"
RecordOf(n) == table[n].RecordNumber
LabelOf(n) == table[n].AspectName

\* the labels of one record in the original row order, and the tags the
\* encoder emitted for the rows of that record, in emission order
RecordLabels(key) ==
    LET idx == Ascending({n \in DOMAIN table : RecordOf(n) = key})
    IN [n \in 1..Len(idx) |-> LabelOf(idx[n])]
RecordTags(key) ==
    LET pos == Ascending({j \in 1..Len(visited) : RecordOf(visited[j]) = key})
    IN [n \in 1..Len(pos) |-> converted_labels[pos[n]]]

\* the previous label with only a leading "I-" stripped
StripLeading(p) == IF Len(p) >= 2 /\ SubSeq(p, 1, 2) = I_ THEN SubSeq(p, 3, Len(p)) ELSE p

\* the two-state machine: prev is "O" (OUTSIDE) or "I-" + type (INSIDE)
RECURSIVE MachineTags(_, _)
MachineTags(ls, prev) ==
    IF ls = <<>> THEN <<>>
    ELSE LET L == Head(ls)
         IN IF L = O THEN <<O>> \o MachineTags(Tail(ls), O)
            ELSE IF prev # O /\ StripLeading(prev) = L
                 THEN <<I_ \o L>> \o MachineTags(Tail(ls), I_ \o L)
                 ELSE <<B_ \o L>> \o MachineTags(Tail(ls), I_ \o L)

\* C2: the tags of every record are those of the two-state machine started
\* in OUTSIDE, for every label string.
C2_TwoStateMachine ==
    Returned => \A key \in RecordNumbers :
                    RecordTags(key) = MachineTags(RecordLabels(key), O)

\* the rows in stable grouping order: groups by first appearance of their
\* record_id, original row order inside a group
FirstRow(n) == CHOOSE m \in DOMAIN table :
                   /\ RecordOf(m) = RecordOf(n)
                   /\ \A l \in DOMAIN table : RecordOf(l) = RecordOf(n) => m <= l
Before(m, n) == FirstRow(m) < FirstRow(n) \/ (FirstRow(m) = FirstRow(n) /\ m < n)
StableOrder ==
    [j \in 1..Rows(table) |->
        CHOOSE n \in DOMAIN table :
            Cardinality({m \in DOMAIN table : Before(m, n)}) = j - 1]
TagOfRow(n) == converted_labels[CHOOSE j \in 1..Len(visited) : visited[j] = n]

\* C3: the output lists the tags group by group in the order in which the
\* record_ids first appear in the input.
C3_StableGroupOrder ==
    (Returned /\ AllKeyed(table)) =>
        /\ Len(converted_labels) = Rows(table)
        /\ \A j \in 1..Rows(table) : converted_labels[j] = TagOfRow(StableOrder[j])

\* C4: the i-th tag of the output is a tag of the i-th input row.
C4_PositionalAlignment ==
    (Returned /\ AllKeyed(table)) =>
        /\ Len(converted_labels) = Rows(table)
        /\ \A n \in DOMAIN table :
               converted_labels[n + 1] \in
                   IF LabelOf(n) = O THEN {O} ELSE {B_ \o LabelOf(n), I_ \o LabelOf(n)}

\* C7: the tag of the first row of a record is "O" or "B-" + label, whatever
\* the groups before it ended with.
C7_GroupReset ==
    \A j \in 1..Len(converted_labels) :
        (\A m \in DOMAIN table : m < visited[j] => RecordOf(m) # RecordOf(visited[j]))
            => converted_labels[j] =
                   IF LabelOf(visited[j]) = O THEN O ELSE B_ \o LabelOf(visited[j])

\* records [a, a] and [a] were encoded as [B-a, I-a] and [B-a]
C7_Witness ==
    /\ Returned
    /\ Rows(table) = 3
    /\ RecordOf(0) = 1 /\ RecordOf(1) = 1 /\ RecordOf(2) = 2
    /\ \A n \in DOMAIN table : LabelOf(n) = <<"a">>
    /\ converted_labels = <<B_ \o <<"a">>, I_ \o <<"a">>, B_ \o <<"a">>>>

\* C9: when every row has a record_id, there are as many tags as rows.
C9_LengthAligned ==
    (Returned /\ AllKeyed(table)) => Len(converted_labels) = Rows(table)

\* a table whose first record is interrupted by another one was encoded
C9_Witness ==
    /\ Returned
    /\ Rows(table) = 3
    /\ RecordOf(0) = 1 /\ RecordOf(1) = 2 /\ RecordOf(2) = 1
    /\ Len(converted_labels) = 3

\* C10: a tag "I-" + L directly follows a tag "B-" + L or "I-" + L of the
\* same record.
C10_WellFormedIOB ==
    \A j \in 1..Len(converted_labels) :
        (LabelOf(visited[j]) # O /\ converted_labels[j] = I_ \o LabelOf(visited[j])) =>
            /\ j > 1
            /\ RecordOf(visited[j - 1]) = RecordOf(visited[j])
            /\ converted_labels[j - 1] \in
                   {B_ \o LabelOf(visited[j]), I_ \o LabelOf(visited[j])}

====
